---- MODULE Spec2Model ----
(***************************************************************************)
(* The state/timer/persistence core of the MorningRoutine component        *)
(* (src/src/app/page.tsx): the StorageManager object over localStorage,    *)
(* the React state of the component, its two effects and its three         *)
(* handlers (toggleTask, startTimer, resetRoutine).                        *)
(*                                                                         *)
(* Representation.                                                         *)
(*  - A JavaScript value that may be null (currentTimer, a localStorage    *)
(*    item) is the empty tuple when null and the one-element tuple <<v>>   *)
(*    otherwise.  A localStorage item whose text JSON.parse rejects is the *)
(*    two-element tuple notJSON.                                           *)
(*  - A CompletedTasks object is the set of its keys: every value the code *)
(*    ever stores is `true`, and a deleted key is absent.                  *)
(*  - The wall clock is `now`, in whole hours since 00:00 UTC of day 0.    *)
(*    A date key (toISOString().split('T')[0]) is the UTC day number.      *)
(*  - Every access to a "morning-routine-<date>" item goes through         *)
(*    getTodayKey(), so the items under other dates are never read or      *)
(*    written again; lsToday is the item under the current date's key.     *)
(*  - A duration in minutes is the fraction num/den, since the routine     *)
(*    holds the duration 0.5.                                              *)
(*  - setInterval/clearInterval are counted: liveIntervals is the number   *)
(*    of intervals set and not yet cleared, each of which calls back once  *)
(*    a second; interval is the local `interval` of the latest run of the  *)
(*    timer effect, which its cleanup clears.                              *)
(***************************************************************************)
EXTENDS Integers, FiniteSets, Sequences, TLC

VARIABLES
    window,          \* typeof window !== 'undefined'
    now,             \* the instant new Date() returns, in hours
    tzShift,         \* local UTC offset now minus the offset one local day ago
    lsToday,         \* localStorage["morning-routine-<date>"] of the current date
    lsStats,         \* localStorage["morning-routine-stats"]
    lsLastCompleted, \* localStorage["last-completed-date"]
    completedTasks,  \* useState: completedTasks
    currentTimer,    \* useState: currentTimer
    timeLeft,        \* useState: timeLeft
    isRunning,       \* useState: isRunning
    stats,           \* useState: stats
    interval,        \* `interval` of the latest run of the timer effect
    liveIntervals,   \* the intervals set and not cleared
    last,            \* history: the operation of the last step and what it saw
    run,             \* history: the ticks since the last start of a countdown
    toggles          \* history: how often each id was toggled

storage  == <<lsToday, lsStats, lsLastCompleted>>
timer    == <<currentTimer, timeLeft, isRunning>>
handles  == <<interval, liveIntervals>>
clock    == <<window, now, tzShift>>
vars     == <<window, now, tzShift, lsToday, lsStats, lsLastCompleted,
              completedTasks, currentTimer, timeLeft, isRunning, stats,
              interval, liveIntervals, last, run, toggles>>

(***************************************************************************)
(* Bounds of the model.                                                    *)
(***************************************************************************)
\* The model keeps the first NumTasks entries of the routine.
NumTasks == 2
\* The clock runs over the days 0..MaxDay.
MaxDay == 3
\* In Spec a countdown is started with 1..ShortTicks seconds.
ShortTicks == 2
\* In SpecTimer a countdown is started with 1..TimerMinutes whole minutes.
TimerMinutes == 1
\* In SpecToggle each id is toggled at most MaxToggles times.
MaxToggles == 4

(***************************************************************************)
(* null and the static data.                                               *)
(***************************************************************************)
null == <<>>

Some(v) == <<v>>

\* An item whose text is not JSON: JSON.parse throws on it.
notJSON == <<"Unexpected", "token">>

\* JSON.parse(item) returns.
parses(item) == Len(item) = 1

Frac(n, d) == [num |-> n, den |-> d]

\* The routine of the source: id and duration (minutes) of each task.
routineAll ==
    << [id |-> 1, duration |-> Frac(1, 2)],
       [id |-> 2, duration |-> Frac(3, 1)],
       [id |-> 3, duration |-> Frac(5, 1)],
       [id |-> 4, duration |-> Frac(8, 1)],
       [id |-> 5, duration |-> Frac(10, 1)],
       [id |-> 6, duration |-> Frac(2, 1)] >>

routine == SubSeq(routineAll, 1, NumTasks)

TaskIds == {routine[i].id : i \in 1..Len(routine)}

\* A task id that is not in the routine.
InvalidId == 99

Ids == TaskIds \cup {InvalidId}

zeroStats == [streak |-> 0, bestStreak |-> 0, completedDays |-> 0]

(***************************************************************************)
(* The clock.                                                              *)
(***************************************************************************)
HoursPerDay == 24

\* The hours of a day at which the model samples the clock.
SampleHours == {0, 12, 23}

Instants == {d * HoursPerDay + h : d \in 0..MaxDay, h \in SampleHours}

\* The change of the local UTC offset over one local calendar day: a day
\* on which the clocks went forward (+1), an ordinary day, a day on which
\* they went back (-1).
DstShifts == {-1, 0, 1}

\* new Date().toISOString().split('T')[0]
getTodayKey == now \div HoursPerDay

\* yesterday = new Date(); yesterday.setDate(yesterday.getDate() - 1);
\* yesterday.toISOString().split('T')[0].  setDate moves the local calendar
\* date back by one and keeps the local wall-clock time, so the instant
\* moves back by 24 hours less the change of the UTC offset; the key is the
\* UTC date of that instant.
yesterdayKey == (now - HoursPerDay + tzShift) \div HoursPerDay

(***************************************************************************)
(* StorageManager.                                                         *)
(***************************************************************************)
\* getTodayProgress gone wrong: the check for a window is missing.
getTodayProgressUnchecked == IF parses(lsToday) THEN lsToday[1] ELSE {}

\* Lines 78-85: {} without a window, JSON.parse(getItem(key) || '{}'), and
\* {} when JSON.parse throws.
getTodayProgress == IF window /\ parses(lsToday) THEN lsToday[1] ELSE {}

\* Lines 93-100: the zeros without a window, JSON.parse(getItem(
\* 'morning-routine-stats') || '{...zeros}'), and the zeros when it throws.
getStats == IF window /\ parses(lsStats) THEN lsStats[1] ELSE zeroStats

\* creditedStats gone wrong: completedDays is not counted up.
creditedStatsDaysKept(s, lastCompleted, yesterday) ==
    LET streak == IF lastCompleted = Some(yesterday) THEN s.streak + 1 ELSE 1
        best   == IF streak > s.bestStreak THEN streak ELSE s.bestStreak
    IN  [streak |-> streak, bestStreak |-> best,
         completedDays |-> s.completedDays]

\* creditedStats gone wrong: bestStreak follows the streak, also downwards.
creditedStatsBestIsStreak(s, lastCompleted, yesterday) ==
    LET streak == IF lastCompleted = Some(yesterday) THEN s.streak + 1 ELSE 1
    IN  [streak |-> streak, bestStreak |-> streak,
         completedDays |-> s.completedDays + 1]

\* creditedStats gone wrong: bestStreak is never raised.
creditedStatsBestKept(s, lastCompleted, yesterday) ==
    LET streak == IF lastCompleted = Some(yesterday) THEN s.streak + 1 ELSE 1
    IN  [streak |-> streak, bestStreak |-> s.bestStreak,
         completedDays |-> s.completedDays + 1]

\* Lines 111-124: the stats after crediting a day.
creditedStats(s, lastCompleted, yesterday) ==
    LET streak == IF lastCompleted = Some(yesterday) THEN s.streak + 1 ELSE 1
        best   == IF streak > s.bestStreak THEN streak ELSE s.bestStreak
    IN  [streak |-> streak, bestStreak |-> best,
         completedDays |-> s.completedDays + 1]

\* creditsDay gone wrong: the comparison with last-completed-date is missing.
creditsDayEverySave(progress, lastCompleted, today) ==
    Cardinality(progress) = Len(routine)

\* Lines 104-110: whether updateStats writes.
creditsDay(progress, lastCompleted, today) ==
    /\ Cardinality(progress) = Len(routine)
    /\ lastCompleted # Some(today)

updateStats(progress) ==
    IF window /\ creditsDay(progress, lsLastCompleted, getTodayKey)
    THEN /\ lsStats' = Some(creditedStats(getStats, lsLastCompleted, yesterdayKey))
         /\ lsLastCompleted' = Some(getTodayKey)
    ELSE UNCHANGED <<lsStats, lsLastCompleted>>

saveTodayProgress(progress) ==
    IF window
    THEN /\ lsToday' = Some(progress)
         /\ updateStats(progress)
    ELSE UNCHANGED storage

resetToday == lsToday' = IF window THEN null ELSE lsToday

(***************************************************************************)
(* The component.                                                          *)
(***************************************************************************)
\* duration * 60
Seconds(duration) == (duration.num * 60) \div duration.den

\* toggled gone wrong: the key is never deleted.
toggledOn(prev, taskId) == prev \cup {taskId}

\* newCompleted of toggleTask: the key is deleted when present, added when not.
toggled(prev, taskId) ==
    IF taskId \in prev THEN prev \ {taskId} ELSE prev \cup {taskId}

\* expired gone wrong: the expiry flips the key as toggleTask does.
expiredFlipping(prev, taskId) ==
    IF taskId \in prev THEN prev \ {taskId} ELSE prev \cup {taskId}

\* newCompleted of the expiry branch: { ...prev, [currentTimer]: true }
expired(prev, taskId) == prev \cup {taskId}

\* expires gone wrong: the expiry branch asks for a timer that is not running.
expiresStopped(cur, tl, running) == tl = 0 /\ ~running /\ cur # null

\* expires gone wrong: the countdown expires one second early.
expiresEarly(cur, tl, running) == tl <= 1 /\ running /\ cur # null

\* Line 159: the condition of the expiry branch.
expires(cur, tl, running) == tl = 0 /\ running /\ cur # null

\* cleared gone wrong: the cleanup does not call clearInterval.
clearedNothing == liveIntervals

\* Lines 169-171: the live intervals after the cleanup of the latest run of
\* the timer effect, if (interval) clearInterval(interval).
cleared == IF interval # null THEN liveIntervals - 1 ELSE liveIntervals

\* Lines 154-158 and 169-171: what a render showing the timer state
\* (cur, tl, running) does to the intervals.  When a dependency changed,
\* React runs the cleanup of the latest run and then the effect, which sets
\* an interval with running and tl > 0; otherwise neither runs.
intervalsAfter(cur, tl, running) ==
    IF <<cur, tl, running>> = timer
    THEN UNCHANGED handles
    ELSE /\ interval' = IF running /\ tl > 0 THEN Some("interval") ELSE null
         /\ liveIntervals' = cleared + (IF running /\ tl > 0 THEN 1 ELSE 0)

\* The timer effect (deps isRunning, timeLeft, currentTimer), run after the
\* render that shows the timer state (cur, tl, running).  With running and
\* tl > 0 it lives as one interval until the next render; in the expiry
\* branch it completes the task, saves, and idles the timer, and the run
\* after that render sets no interval either.  setStats reads getStats()
\* right after setCompletedTasks(updater): React runs the updater at once or
\* in the next render, so the read sees the stats either after or before
\* the save.
timerEffect(cur, tl, running) ==
    IF expires(cur, tl, running)
    THEN /\ completedTasks' = expired(completedTasks, cur[1])
         /\ saveTodayProgress(expired(completedTasks, cur[1]))
         /\ isRunning' = FALSE
         /\ currentTimer' = null
         /\ timeLeft' = tl
         /\ stats' \in {getStats, getStats'}
         /\ intervalsAfter(cur, tl, running)
    ELSE /\ currentTimer' = cur
         /\ timeLeft' = tl
         /\ isRunning' = running
         /\ intervalsAfter(cur, tl, running)
         /\ UNCHANGED <<completedTasks, stats, storage>>

\* The mount effect of a fresh component (a page load): every useState
\* starts at its initial value, then the stored progress and stats load.
\* The intervals of the page that was left are gone with it.
Mount ==
    /\ completedTasks' = getTodayProgress
    /\ stats' = getStats
    /\ currentTimer' = null
    /\ timeLeft' = 0
    /\ isRunning' = FALSE
    /\ interval' = null
    /\ liveIntervals' = 0
    /\ UNCHANGED <<storage, clock>>

\* toggleTask gone wrong: setStats reads the stats before the save.
toggleTaskStaleStats(taskId) ==
    /\ UNCHANGED <<timer, handles, clock>>
    /\ completedTasks' = toggled(completedTasks, taskId)
    /\ saveTodayProgress(toggled(completedTasks, taskId))
    /\ stats' = getStats

toggleTask(taskId) ==
    /\ UNCHANGED <<timer, handles, clock>>
    /\ completedTasks' = toggled(completedTasks, taskId)
    /\ saveTodayProgress(toggled(completedTasks, taskId))
    /\ stats' = getStats'

\* started gone wrong: a start on another task keeps the seconds left.
startedKeepingTime(taskId, duration) ==
    IF currentTimer = Some(taskId) /\ isRunning
    THEN [cur |-> currentTimer, tl |-> timeLeft, running |-> FALSE]
    ELSE [cur |-> Some(taskId),
          tl |-> IF currentTimer = null THEN Seconds(duration) ELSE timeLeft,
          running |-> TRUE]

\* started gone wrong: a start on the running task stops the timer for good.
startedStopping(taskId, duration) ==
    IF currentTimer = Some(taskId) /\ isRunning
    THEN [cur |-> null, tl |-> 0, running |-> FALSE]
    ELSE [cur |-> Some(taskId), tl |-> Seconds(duration), running |-> TRUE]

\* started gone wrong: a start on the paused task resumes at the seconds left.
startedResuming(taskId, duration) ==
    IF currentTimer = Some(taskId) /\ isRunning
    THEN [cur |-> currentTimer, tl |-> timeLeft, running |-> FALSE]
    ELSE [cur |-> Some(taskId),
          tl |-> IF currentTimer = Some(taskId) THEN timeLeft
                 ELSE Seconds(duration),
          running |-> TRUE]

\* The timer state startTimer asks for.
started(taskId, duration) ==
    IF currentTimer = Some(taskId) /\ isRunning
    THEN [cur |-> currentTimer, tl |-> timeLeft, running |-> FALSE]
    ELSE [cur |-> Some(taskId), tl |-> Seconds(duration), running |-> TRUE]

startTimer(taskId, duration) ==
    /\ UNCHANGED clock
    /\ timerEffect(started(taskId, duration).cur,
                   started(taskId, duration).tl,
                   started(taskId, duration).running)

\* The callback of a live interval: setTimeLeft(prev => prev - 1).
Tick ==
    /\ liveIntervals > 0
    /\ UNCHANGED clock
    /\ timerEffect(currentTimer, timeLeft - 1, isRunning)

\* resetRoutine gone wrong: setTimeLeft(0) is missing.
resetRoutineKeepingTime ==
    /\ completedTasks' = {}
    /\ currentTimer' = null
    /\ isRunning' = FALSE
    /\ intervalsAfter(null, timeLeft, FALSE)
    /\ resetToday
    /\ UNCHANGED <<timeLeft, lsStats, lsLastCompleted, stats, clock>>

\* resetRoutine gone wrong: the day's credit is removed with the record.
resetRoutineUncrediting ==
    /\ completedTasks' = {}
    /\ currentTimer' = null
    /\ timeLeft' = 0
    /\ isRunning' = FALSE
    /\ intervalsAfter(null, 0, FALSE)
    /\ resetToday
    /\ lsLastCompleted' = null
    /\ UNCHANGED <<lsStats, stats, clock>>

resetRoutine ==
    /\ completedTasks' = {}
    /\ currentTimer' = null
    /\ timeLeft' = 0
    /\ isRunning' = FALSE
    /\ intervalsAfter(null, 0, FALSE)
    /\ resetToday
    /\ UNCHANGED <<lsStats, lsLastCompleted, stats, clock>>

\* Time passes: the clock moves to a later sampled instant.  On a new date
\* the item under the new date key is one that no step has written.
AdvanceClock ==
    /\ \E t \in Instants : t > now /\ now' = t
    /\ tzShift' \in DstShifts
    /\ lsToday' = IF getTodayKey' = getTodayKey THEN lsToday ELSE null
    /\ UNCHANGED <<window, lsStats, lsLastCompleted, completedTasks, timer,
                   handles, stats>>

(***************************************************************************)
(* History variables.  They record what a step did and never feed back    *)
(* into the program's variables.                                           *)
(***************************************************************************)
\* What the step `op` saw before it acted.
Saw(op, id, duration) ==
    [op       |-> op,
     id       |-> id,
     duration |-> duration,
     running  |-> isRunning,
     credited |-> lsLastCompleted = Some(getTodayKey),
     n        |-> Cardinality(completedTasks)]

\* The ids a step marked completed.
newlyCompleted == completedTasks' \ completedTasks

\* A countdown that was started and only ticked since.
counted(taskId, duration) ==
    IF currentTimer = Some(taskId) /\ isRunning
    THEN null
    ELSE Some([task |-> taskId, duration |-> duration, ticks |-> 0,
               was |-> taskId \in completedTasks,
               resumed |-> /\ currentTimer = Some(taskId)
                           /\ timeLeft \in 1..(Seconds(duration) - 1),
               from |-> IF isRunning THEN currentTimer ELSE null])

ticked == IF run = null THEN null ELSE Some([run[1] EXCEPT !.ticks = @ + 1])

(***************************************************************************)
(* Spec: the whole component over several days, driven as the page drives *)
(* it, with the ids of the routine, and with countdowns of a few seconds.  *)
(***************************************************************************)
\* k seconds, as minutes.
ShortDurations == {Frac(k, 60) : k \in 1..ShortTicks}

Init ==
    /\ window = TRUE
    /\ now = 12
    /\ tzShift = 0
    /\ lsToday = null
    /\ lsStats = null
    /\ lsLastCompleted = null
    /\ completedTasks = {}
    /\ currentTimer = null
    /\ timeLeft = 0
    /\ isRunning = FALSE
    /\ stats = zeroStats
    /\ interval = null
    /\ liveIntervals = 0
    /\ last = [op |-> "Init", id |-> null, duration |-> null,
               running |-> FALSE, credited |-> FALSE, n |-> 0]
    /\ run = null
    /\ toggles = [i \in Ids |-> 0]

Reload ==
    /\ Mount
    /\ last' = Saw("Mount", null, null)
    /\ UNCHANGED <<run, toggles>>

Toggle ==
    \E id \in TaskIds :
        /\ toggleTask(id)
        /\ last' = Saw("toggleTask", Some(id), null)
        /\ UNCHANGED <<run, toggles>>

Start ==
    \E id \in TaskIds, d \in ShortDurations :
        /\ startTimer(id, d)
        /\ last' = Saw("startTimer", Some(id), Some(d))
        /\ UNCHANGED <<run, toggles>>

Second ==
    /\ Tick
    /\ last' = Saw("Tick", null, null)
    /\ UNCHANGED <<run, toggles>>

Reset ==
    /\ resetRoutine
    /\ last' = Saw("resetRoutine", null, null)
    /\ UNCHANGED <<run, toggles>>

Advance ==
    /\ AdvanceClock
    /\ last' = Saw("AdvanceClock", null, null)
    /\ UNCHANGED <<run, toggles>>

Next == Reload \/ Toggle \/ Start \/ Second \/ Reset \/ Advance

Spec == Init /\ [][Next]_vars

(***************************************************************************)
(* SpecTimer: one day, the handlers called with any id, also one that is  *)
(* not in the routine, and with countdowns of whole minutes and of the     *)
(* routine's own durations, counted tick by tick.                          *)
(***************************************************************************)
TimerDurations ==
    {Frac(m, 1) : m \in 1..TimerMinutes}
        \cup {routine[i].duration : i \in
                 {j \in 1..Len(routine) :
                     Seconds(routine[j].duration) <= 60 * TimerMinutes}}

TimerToggle ==
    \E id \in Ids :
        /\ toggleTask(id)
        /\ last' = Saw("toggleTask", Some(id), null)
        /\ run' = null
        /\ UNCHANGED toggles

TimerStart ==
    \E id \in Ids, d \in TimerDurations :
        /\ startTimer(id, d)
        /\ last' = Saw("startTimer", Some(id), Some(d))
        /\ run' = counted(id, d)
        /\ UNCHANGED toggles

TimerSecond ==
    /\ Tick
    /\ last' = Saw("Tick", null, null)
    /\ run' = ticked
    /\ UNCHANGED toggles

TimerReset ==
    /\ resetRoutine
    /\ last' = Saw("resetRoutine", null, null)
    /\ run' = null
    /\ UNCHANGED toggles

NextTimer == TimerToggle \/ TimerStart \/ TimerSecond \/ TimerReset

SpecTimer == Init /\ [][NextTimer]_vars

(***************************************************************************)
(* SpecToggle: sequences of toggleTask calls only, each call counted.      *)
(***************************************************************************)
CountedToggle ==
    \E id \in Ids :
        /\ toggles[id] < MaxToggles
        /\ toggleTask(id)
        /\ toggles' = [toggles EXCEPT ![id] = @ + 1]
        /\ UNCHANGED <<last, run>>

NextToggle == CountedToggle

SpecToggle == Init /\ [][NextToggle]_vars

(***************************************************************************)
(* SpecLoad: the loaders and the handlers over whatever localStorage may   *)
(* hold when the page is opened (no item, an item that is not JSON, an     *)
(* item the page wrote), with and without a window.                        *)
(***************************************************************************)
\* Stats items the page can have written.
StoredStats ==
    {zeroStats, [streak |-> 1, bestStreak |-> 2, completedDays |-> 3]}

InitLoad ==
    /\ window \in BOOLEAN
    /\ now = 12
    /\ tzShift = 0
    /\ lsToday \in {null, notJSON} \cup {Some(p) : p \in SUBSET TaskIds}
    /\ lsStats \in {null, notJSON} \cup {Some(st) : st \in StoredStats}
    /\ lsLastCompleted = null
    /\ completedTasks = {}
    /\ currentTimer = null
    /\ timeLeft = 0
    /\ isRunning = FALSE
    /\ stats = zeroStats
    /\ interval = null
    /\ liveIntervals = 0
    /\ last = [op |-> "Init", id |-> null, duration |-> null,
               running |-> FALSE, credited |-> FALSE, n |-> 0]
    /\ run = null
    /\ toggles = [i \in Ids |-> 0]

LoadReload ==
    /\ Mount
    /\ last' = Saw("Mount", null, null)
    /\ UNCHANGED <<run, toggles>>

LoadToggle ==
    \E id \in TaskIds :
        /\ toggleTask(id)
        /\ last' = Saw("toggleTask", Some(id), null)
        /\ UNCHANGED <<run, toggles>>

NextLoad == LoadReload \/ LoadToggle

SpecLoad == InitLoad /\ [][NextLoad]_vars

(***************************************************************************)
(* SpecFair: countdowns left to run out.  A countdown is started only     *)
(* while none is running, so none is paused or superseded, and nothing is  *)
(* reset; tasks are toggled meanwhile.  A live interval calls back every   *)
(* 1000 ms for as long as it is set, hence the weak fairness of the tick.  *)
(***************************************************************************)
FairStart ==
    /\ ~isRunning
    /\ Start

FairToggle == Toggle

FairSecond == Second

NextFair == FairStart \/ FairToggle \/ FairSecond

SpecFair == Init /\ [][NextFair]_vars /\ WF_vars(FairSecond)

(***************************************************************************)
(* The claims.                                                             *)
(***************************************************************************)
allDone == Cardinality(completedTasks) = Len(routine)

\* C1: once the day is credited (last-completed-date is today's key), no
\* later step of the same day changes the stored stats or the stored date:
\* un-completing a task and completing it again, by toggleTask or by the
\* timer, credits nothing a second time.
C1_CreditedOncePerDay ==
    [][ (lsLastCompleted = Some(getTodayKey) /\ getTodayKey' = getTodayKey)
            => (lsStats' = lsStats /\ lsLastCompleted' = lsLastCompleted) ]_vars

\* C1 happens: a toggle completed the last open task again on a day that
\* was credited before, and the day counts once.
C1_Recompleted ==
    /\ last.op = "toggleTask"
    /\ last.credited
    /\ last.n < Len(routine)
    /\ allDone
    /\ lsToday = Some(completedTasks)
    /\ getStats.completedDays = 1

\* C2: when a day D is credited, the new streak is the old streak + 1 if
\* last-completed-date was D-1 and 1 if it was an earlier day or absent;
\* completedDays grows by exactly 1 and last-completed-date becomes D.
C2_StreakContinuation ==
    [][ (getTodayKey' = getTodayKey
            /\ lsLastCompleted # Some(getTodayKey)
            /\ lsLastCompleted' = Some(getTodayKey))
            => /\ getStats'.streak =
                    IF lsLastCompleted = Some(getTodayKey - 1)
                    THEN getStats.streak + 1 ELSE 1
               /\ getStats'.completedDays = getStats.completedDays + 1 ]_vars

oneMinute == Frac(1, 1)

\* C3: a countdown started with duration 1 minute and ticked 59 times, with
\* no other operation in between, is Running on its task with 1 second
\* left and has not completed the task; ticked 60 times, it has left the
\* engine Idle and the task completed and saved under today's key.
C3_OneMinuteCountdown ==
    (run # null /\ run[1].duration = oneMinute) =>
        /\ run[1].ticks = 59 =>
              /\ isRunning
              /\ currentTimer = Some(run[1].task)
              /\ timeLeft = 1
              /\ (run[1].task \in completedTasks) = run[1].was
        /\ run[1].ticks = 60 =>
              /\ ~isRunning
              /\ currentTimer = null
              /\ timeLeft = 0
              /\ run[1].task \in completedTasks
              /\ lsToday = Some(completedTasks)

\* C3 happens: the 60th tick of a one-minute countdown completed a task that
\* was open when the countdown started.
C3_SixtiethTick ==
    /\ run # null
    /\ run[1].duration = oneMinute
    /\ run[1].ticks = 60
    /\ ~run[1].was
    /\ run[1].task \in completedTasks

\* C4: a start on task B while a countdown on another task A is active
\* completes nothing and leaves the engine Running on B with B's full
\* duration; and a step completes a task only by toggling it or by the
\* tick that expires the countdown the engine is tracking, so the abandoned
\* countdown on A never completes A.
C4_OneActiveTimer ==
    [][ /\ (last'.op = "startTimer"
               /\ currentTimer # null /\ currentTimer # last'.id)
            => /\ completedTasks' = completedTasks
               /\ currentTimer' = last'.id
               /\ timeLeft' = Seconds(last'.duration[1])
               /\ isRunning'
        /\ \A t \in newlyCompleted :
              \/ last'.op = "toggleTask" /\ last'.id = Some(t)
              \/ last'.op = "Tick" /\ currentTimer = Some(t) ]_vars

\* C4 happens: the countdown started on B, over a running countdown on A,
\* expired and completed B; A is not completed.
C4_Superseded ==
    /\ run # null
    /\ run[1].ticks = Seconds(run[1].duration)
    /\ run[1].task \in completedTasks
    /\ \E a \in TaskIds :
          /\ a # run[1].task
          /\ run[1].from = Some(a)
          /\ a \notin completedTasks

\* C5: after any sequence of toggleTask calls from the empty map, an id is
\* in CompletedTasks iff it was toggled an odd number of times.
C5_ToggleParity ==
    \A t \in Ids : (t \in completedTasks) <=> (toggles[t] % 2 = 1)

\* C5 happens: one id was toggled three times and is in, another twice and
\* is out.
C5_ThreeAndTwo ==
    \E t, u \in Ids :
        /\ toggles[t] = 3 /\ t \in completedTasks
        /\ toggles[u] = 2 /\ u \notin completedTasks

\* C6: right after resetRoutine nothing is completed, the engine is Idle
\* (no active task, not running, 0 seconds left) and today's record is
\* deleted.
C6_ResetClears ==
    last.op = "resetRoutine" =>
        /\ Cardinality(completedTasks) = 0
        /\ currentTimer = null
        /\ ~isRunning
        /\ timeLeft = 0
        /\ lsToday = null

\* C6 happens: resetRoutine acted on a running countdown with tasks
\* completed.
C6_ResetWhileRunning ==
    /\ last.op = "resetRoutine"
    /\ last.running
    /\ last.n > 0
    /\ completedTasks = {}

\* C7: no step makes the stored bestStreak smaller.
C7_BestStreakMonotone ==
    [][ getStats'.bestStreak >= getStats.bestStreak ]_vars

\* C7 happens: the streak was 2 and has been reset to 1; bestStreak is
\* still 2.
C7_BestOutlivesStreak ==
    /\ getStats.bestStreak = 2
    /\ getStats.streak = 1

\* C8: the stored stats, once written, have bestStreak >= streak.
C8_BestAtLeastStreak ==
    lsStats # null => getStats.bestStreak >= getStats.streak

\* C8 happens: a stats update raised the streak to 2 and bestStreak with it.
C8_BestRaised ==
    /\ lsStats # null
    /\ getStats.streak = 2
    /\ getStats.bestStreak = 2

\* C9: toggleTask or startTimer with an id that is not in the routine
\* changes neither CompletedTasks, nor the stored record, stats and date,
\* nor the in-memory stats, nor the timer state.
C9_InvalidIdIgnored ==
    [][ (last'.op \in {"toggleTask", "startTimer"} /\ last'.id = Some(InvalidId))
            => UNCHANGED <<completedTasks, lsToday, lsStats, lsLastCompleted,
                           stats, currentTimer, timeLeft, isRunning>> ]_vars

\* C10: the record under a date key starts empty: the step that first
\* writes it, with the map in use, writes no task except the one that step
\* completed, so no task completed only on an earlier day is in it.
C10_NotSharedAcrossDays ==
    [][ (getTodayKey' = getTodayKey /\ lsToday = null /\ lsToday' # null)
            => lsToday'[1] \subseteq newlyCompleted ]_vars

C12_OneLiveInterval ==
    /\ liveIntervals \in {0, 1}
    /\ liveIntervals = 1 <=> interval # null
    /\ liveIntervals = 1 => (isRunning /\ timeLeft > 0)
    /\ ~isRunning => liveIntervals = 0

\* C12 happens: a start on another task superseded a running countdown,
\* whose interval was replaced by the one now live.
C12_IntervalReplaced ==
    /\ last.op = "startTimer"
    /\ last.running
    /\ isRunning
    /\ run # null
    /\ run[1].from # null
    /\ run[1].from # currentTimer
    /\ liveIntervals = 1

\* The last step was a tick on which the countdown expired.
expiredLast == last.op = "Tick" /\ last.running /\ ~isRunning

\* C13: after toggleTask, after the timer's expiry and after resetRoutine,
\* getTodayProgress() returns the completedTasks in memory; after
\* toggleTask the stats in memory are the stored stats.
C13_MutationsPersisted ==
    /\ (last.op \in {"toggleTask", "resetRoutine"} \/ expiredLast)
            => getTodayProgress = completedTasks
    /\ last.op = "toggleTask" => stats = getStats

\* C13 happens: a toggle completed the last open task of a day not yet
\* credited; the map and the raised stats are in memory as stored.
C13_CreditingToggleSaved ==
    /\ last.op = "toggleTask"
    /\ ~last.credited
    /\ allDone
    /\ lsToday = Some(completedTasks)
    /\ lsStats = Some(stats)
    /\ stats.completedDays >= 1
    /\ lsLastCompleted = Some(getTodayKey)

C15_StatsOnlyOnFullCompletion ==
    [][ (lsStats' # lsStats \/ lsLastCompleted' # lsLastCompleted) =>
            /\ last'.op \in {"toggleTask", "Tick"}
            /\ TaskIds \subseteq completedTasks'
            /\ lsLastCompleted # Some(getTodayKey) ]_vars

\* C16: startTimer(taskId, duration), unless taskId is the task the timer
\* is running on, sets currentTimer = taskId, timeLeft = duration * 60 and
\* isRunning = true, from idle, from another task's countdown and from a
\* pause alike: a paused task starts again at its full duration.
C16_StartSetsFullDuration ==
    [][ \A id \in Ids, d \in TimerDurations :
            (/\ last'.op = "startTimer"
             /\ last'.id = Some(id)
             /\ last'.duration = Some(d)
             /\ ~(currentTimer = Some(id) /\ isRunning))
                => /\ currentTimer' = Some(id)
                   /\ timeLeft' = Seconds(d)
                   /\ isRunning' ]_vars

\* C16 happens: a countdown paused with fewer seconds left than its
\* duration was started again and is running at the full duration.
C16_RestartedFromPause ==
    /\ last.op = "startTimer"
    /\ ~last.running
    /\ run # null
    /\ run[1].resumed
    /\ run[1].ticks = 0
    /\ isRunning
    /\ currentTimer = Some(run[1].task)
    /\ timeLeft = Seconds(run[1].duration)

\* The timer is paused: a task is current and the timer is not running.
paused == currentTimer # null /\ ~isRunning

\* C17: startTimer on the task the timer is running on pauses it: isRunning
\* becomes false, currentTimer and timeLeft are kept; and from a paused
\* timer no step is a tick, none decrements timeLeft and none but
\* toggleTask completes a task.
C17_PauseKeepsTimeLeft ==
    [][ /\ (/\ last'.op = "startTimer"
            /\ last'.id = currentTimer
            /\ isRunning)
                => /\ paused'
                   /\ currentTimer' = currentTimer
                   /\ timeLeft' = timeLeft
                   /\ liveIntervals' = 0
        /\ paused
                => /\ last'.op # "Tick"
                   /\ paused' => timeLeft' = timeLeft
                   /\ last'.op # "toggleTask"
                        => completedTasks' \subseteq completedTasks ]_vars

\* C17 happens: a running countdown was paused by a start on its own task
\* and holds seconds left, with no interval live.
C17_PausedMidCountdown ==
    /\ last.op = "startTimer"
    /\ last.running
    /\ last.id = currentTimer
    /\ paused
    /\ timeLeft \in 1..58
    /\ liveIntervals = 0

\* C18: under fair ticking a timer running on task t, not paused, superseded
\* or reset, leads to the expiry: t is completed, the map is stored under
\* today's key, the day is credited if the map is now full, and the timer
\* is idle; and the timer is never running with timeLeft = 0.
C18_CountdownRunsOut ==
    /\ [](~(isRunning /\ timeLeft = 0))
    /\ \A t \in TaskIds :
          (isRunning /\ currentTimer = Some(t))
              ~> (/\ expiredLast
                  /\ t \in completedTasks
                  /\ lsToday = Some(completedTasks)
                  /\ allDone => lsLastCompleted = Some(getTodayKey)
                  /\ currentTimer = null
                  /\ timeLeft = 0
                  /\ liveIntervals = 0)

\* C18 happens: a countdown ran out on the last open task of a day not yet
\* credited, which credited the day and left the timer idle.
C18_LastTaskTimedOut ==
    /\ expiredLast
    /\ ~last.credited
    /\ last.n = Len(routine) - 1
    /\ allDone
    /\ lsToday = Some(completedTasks)
    /\ lsLastCompleted = Some(getTodayKey)
    /\ getStats.completedDays = 1
    /\ currentTimer = null

\* C19: the expiry of a countdown removes no task from completedTasks: the
\* task the timer ran on is completed afterwards, also when it was
\* completed already (toggled while its countdown ran), in memory and in
\* the stored map.
C19_ExpiryOnlyCompletes ==
    [][ (last'.op = "Tick" /\ isRunning /\ ~isRunning') =>
            /\ completedTasks \subseteq completedTasks'
            /\ currentTimer[1] \in completedTasks'
            /\ currentTimer[1] \in getTodayProgress' ]_vars

\* C19 happens: a countdown ran out on a task that was completed already
\* (the expiry added no key), and the map is stored as it was.
C19_ExpiredOnCompletedTask ==
    /\ expiredLast
    /\ last.n >= 1
    /\ last.n = Cardinality(completedTasks)
    /\ lsToday = Some(completedTasks)

\* C20: in every reachable state completedDays >= bestStreak >= streak >= 0,
\* in the stored stats and in the stats in memory, whatever the toggles,
\* expiries, resets and advances of the clock, days skipped included.
C20_StatsOrdered ==
    /\ getStats.completedDays >= getStats.bestStreak
    /\ getStats.bestStreak >= getStats.streak
    /\ getStats.streak >= 0
    /\ stats.completedDays >= stats.bestStreak
    /\ stats.bestStreak >= stats.streak
    /\ stats.streak >= 0

\* C20 happens: after a skipped day the three counts all differ.
C20_CountsApart ==
    /\ getStats.completedDays = 3
    /\ getStats.bestStreak = 2
    /\ getStats.streak = 1
    /\ stats = getStats

====
